---- MODULE Spec2Model ----
(***************************************************************************)
(* Device-profile application layer of core-metadata                       *)
(* (internal/core/metadata/application/deviceprofile.go) and the           *)
(* notifications service configuration struct.                             *)
(*                                                                         *)
(* Every request is a process that walks through its handler one store     *)
(* call at a time; the store, the devices and the provision watchers are   *)
(* shared.  The configuration, the units-of-measure validator and the      *)
(* database client all reach a handler through its dic parameter; the      *)
(* configuration a call sees is part of the call's input.                  *)
(***************************************************************************)
EXTENDS Integers, Sequences, FiniteSets, TLC

\* ------------------------------------------------------------------ bounds

\* longest device-resource list of an input profile
MaxResourcesLen == 2
\* largest offset and limit of a listing request
MaxOffset == 2
MaxLimit == 2

\* ------------------------------------------------------------------- data

Procs == {"a", "b"}

Names == {"p1", "p2"}
Manufacturers == {"acme", "bolt"}
Models == {"t1", "t2"}
LabelSet == {"hvac"}
Units == {"degC", "bogus"}

\* the id the store gives the profile of a name
IdOf(n) == IF n = "p1" THEN "id1" ELSE "id2"
Ids == {IdOf(n) : n \in Names}

SeqsUpTo(S, n) == UNION {[1..k -> S] : k \in 0..n}

\* models.DeviceProfile as a handler receives it (no id yet)
ProfilesOver(names, mans, mods, labs, maxLen) ==
    [id : {""}, name : names, manufacturer : mans, model : mods,
     labels : labs, deviceResources : SeqsUpTo(Units, maxLen)]

\* uom.Validate
Validate(u) == u = "degC"

\* errors.NewCommonEdgeX(kind, message, nil): stage names the statement
NewCommonEdgeX(kind, stage) == [kind |-> kind, stage |-> stage, wrapped |-> 0]

\* errors.NewCommonEdgeXWrapper(err): the kind is that of the wrapped error
NewCommonEdgeXWrapper(err) == [err EXCEPT !.wrapped = @ + 1]

\* dtos.FromDeviceProfileModelToBasicInfoDTO
FromDeviceProfileModelToBasicInfoDTO(dp) ==
    [id |-> dp.id, name |-> dp.name, manufacturer |-> dp.manufacturer,
     model |-> dp.model, labels |-> dp.labels]

\* dtos.FromDeviceProfileModelToDTO
FromDeviceProfileModelToDTO(dp) ==
    [basicInfo |-> FromDeviceProfileModelToBasicInfoDTO(dp),
     deviceResources |-> dp.deviceResources]

\* the DTO handed to publishSystemEvent, with the action of the event
SystemEvent(action, dto) ==
    [type |-> "deviceprofile", action |-> action, source |-> "core-metadata",
     details |-> dto]

\* -------------------------------------------------------------- config.go

\* the values the fields of WritableInfo are given ("" and 0: the zero values)
LogLevels == {"", "INFO", "DEBUG"}
ResendLimits == {0, 2}

\* type WritableInfo struct, lines 35-43
WritableInfos == [LogLevel : LogLevels, ResendLimit : ResendLimits]

\* the sections of ConfigurationStruct besides Writable, lines 26-32
Sections == {"Clients", "Database", "Registry", "Service", "MessageBus", "Smtp", "Retention"}

\* what a section holds: nothing yet, or what one of two configuration files gave it
SectionValues == {"zero", "fileA", "fileB"}

\* type ConfigurationStruct struct, lines 24-33, every section from one origin
ConfigurationOf(writable, origin) ==
    [Writable |-> writable, Clients |-> origin, Database |-> origin,
     Registry |-> origin, Service |-> origin, MessageBus |-> origin,
     Smtp |-> origin, Retention |-> origin]

\* the zero value of the struct
ZeroConfiguration == ConfigurationOf([LogLevel |-> "", ResendLimit |-> 0], "zero")

\* a value of type interface{}: its dynamic type and, for a pointer, what it
\* points to or NilPointer
NilPointer == [nil |-> TRUE]

Interface(type, val) == [type |-> type, val |-> val]

\* ------------------------------------------------------------------ state

VARIABLES
    store,      \* the profiles of the store, by name
    devices,    \* the profile names the stored devices reference
    watchers,   \* the profile names the stored provision watchers reference
    pc,         \* each request's place in its handler
    call,       \* each request's operation and arguments
    loc,        \* each request's local variables
    ret,        \* what the handler returned
    calls,      \* the store calls the request made, in order
    evts,       \* the events the request scheduled (go publish...)
    pub,        \* the state of the goroutine the request started
    dirty,      \* whether a step of the request changed the profiles
    configuration,  \* the ConfigurationStruct of the notifications service
    updated     \* the last Update...FromRaw call: its argument and what it returned

vars ==
    <<store, devices, watchers, pc, call, loc, ret, calls, evts, pub, dirty,
      configuration, updated>>

NoCall == [op |-> "none"]
NoLoc == [none |-> TRUE]
NoRet == [status |-> "none"]

Ok(val) == [status |-> "ok", val |-> val]
Err(e, val) == [status |-> "err", err |-> e, val |-> val]

Init ==
    /\ store = <<>>
    /\ devices = {}
    /\ watchers = {}
    /\ pc = [p \in Procs |-> "idle"]
    /\ call = [p \in Procs |-> NoCall]
    /\ loc = [p \in Procs |-> NoLoc]
    /\ ret = [p \in Procs |-> NoRet]
    /\ calls = [p \in Procs |-> <<>>]
    /\ evts = [p \in Procs |-> <<>>]
    /\ pub = [p \in Procs |-> "none"]
    /\ dirty = [p \in Procs |-> FALSE]
    /\ configuration = ZeroConfiguration
    /\ updated = [op |-> "none"]

\* ------------------------------------------------------------------ store
\* The database client (interfaces.DBClient).  Every call may fail for a
\* reason of the database's own (fail), besides the failures its contract
\* names.

Nil == [kind |-> "nil"]

StoreWith(st, d) ==
    [n \in DOMAIN st \cup {d.name} |-> IF n = d.name THEN d ELSE st[n]]

StoreWithout(st, name) == [n \in DOMAIN st \ {name} |-> st[n]]

\* dbClient.AddDeviceProfile: insert, the store assigns the id
DbAddDeviceProfile(st, d, fail) ==
    IF fail THEN
        [err |-> NewCommonEdgeX("DatabaseError", "insert"), store |-> st, profile |-> d]
    ELSE IF d.name \in DOMAIN st THEN
        [err |-> NewCommonEdgeX("DuplicateName", "insert"), store |-> st, profile |-> d]
    ELSE
        LET added == [d EXCEPT !.id = IdOf(d.name)] IN
        [err |-> Nil, store |-> StoreWith(st, added), profile |-> added]

\* dbClient.UpdateDeviceProfile: replace the record of that name, keeping its id
DbUpdateDeviceProfile(st, d, fail) ==
    IF fail THEN
        [err |-> NewCommonEdgeX("DatabaseError", "replace"), store |-> st]
    ELSE IF d.name \notin DOMAIN st THEN
        [err |-> NewCommonEdgeX("EntityDoesNotExist", "replace"), store |-> st]
    ELSE
        [err |-> Nil, store |-> StoreWith(st, [d EXCEPT !.id = st[d.name].id])]

\* dbClient.DeviceProfileByName
DbDeviceProfileByName(st, name, fail) ==
    IF fail THEN
        [err |-> NewCommonEdgeX("DatabaseError", "fetchByName"), profile |-> Nil]
    ELSE IF name \notin DOMAIN st THEN
        [err |-> NewCommonEdgeX("EntityDoesNotExist", "fetchByName"), profile |-> Nil]
    ELSE
        [err |-> Nil, profile |-> st[name]]

\* dbClient.DeviceProfileById
DbDeviceProfileById(st, id, fail) ==
    IF fail THEN
        [err |-> NewCommonEdgeX("DatabaseError", "fetchById"), profile |-> Nil]
    ELSE IF \A n \in DOMAIN st : st[n].id # id THEN
        [err |-> NewCommonEdgeX("EntityDoesNotExist", "fetchById"), profile |-> Nil]
    ELSE
        [err |-> Nil, profile |-> st[CHOOSE n \in DOMAIN st : st[n].id = id]]

\* dbClient.DeleteDeviceProfileByName
DbDeleteDeviceProfileByName(st, name, fail) ==
    IF fail THEN
        [err |-> NewCommonEdgeX("DatabaseError", "delete"), store |-> st]
    ELSE IF name \notin DOMAIN st THEN
        [err |-> NewCommonEdgeX("EntityDoesNotExist", "delete"), store |-> st]
    ELSE
        [err |-> Nil, store |-> StoreWithout(st, name)]

\* dbClient.DevicesByProfileName(0, 1, name) and
\* dbClient.ProvisionWatchersByProfileName(0, 1, name): at most one row
DbRefsByProfileName(refs, name, fail, stage) ==
    IF fail THEN
        [err |-> NewCommonEdgeX("DatabaseError", stage), rows |-> <<>>]
    ELSE
        [err |-> Nil, rows |-> IF name \in refs THEN <<name>> ELSE <<>>]

\* ------------------------------------------------------- request framing

\* the handler returns r
Return(p, r) ==
    /\ pc' = [pc EXCEPT ![p] = "done"]
    /\ ret' = [ret EXCEPT ![p] = r]

Goto(p, label) ==
    /\ pc' = [pc EXCEPT ![p] = label]
    /\ ret' = ret

\* the request made store call op, which succeeded or not
Log(p, op, ok) == calls' = [calls EXCEPT ![p] = Append(@, [op |-> op, ok |-> ok])]

\* a step that leaves the profiles alone
NoWrite == store' = store /\ dirty' = dirty

\* a step of p that sets the profiles to st
Write(p, st) ==
    /\ store' = st
    /\ dirty' = [dirty EXCEPT ![p] = @ \/ st # store]

\* go publishSystemEvent(...): the event is handed to a goroutine of its own
GoPublish(p, action, dto) ==
    /\ evts' = [evts EXCEPT ![p] = Append(@, SystemEvent(action, dto))]
    /\ pub' = [pub EXCEPT ![p] = "running"]

NoPublish == evts' = evts /\ pub' = pub

\* a request arrives: the handler is entered with call c
Start(p, c) ==
    /\ pc[p] = "idle"
    /\ pc' = [pc EXCEPT ![p] = c.op]
    /\ call' = [call EXCEPT ![p] = c]
    /\ UNCHANGED <<configuration, updated, store, devices, watchers, loc, ret, calls, evts, pub, dirty>>

\* the caller has its answer; the goroutine the handler started, if it still
\* runs, goes on by itself and touches nothing of the service
Respond(p) ==
    /\ pc[p] = "done"
    /\ pc' = [pc EXCEPT ![p] = "idle"]
    /\ call' = [call EXCEPT ![p] = NoCall]
    /\ loc' = [loc EXCEPT ![p] = NoLoc]
    /\ ret' = [ret EXCEPT ![p] = NoRet]
    /\ calls' = [calls EXCEPT ![p] = <<>>]
    /\ evts' = [evts EXCEPT ![p] = <<>>]
    /\ pub' = [pub EXCEPT ![p] = "none"]
    /\ dirty' = [dirty EXCEPT ![p] = FALSE]
    /\ UNCHANGED <<configuration, updated, store, devices, watchers>>

\* the goroutine of p's event ends: the event was published, or publishing failed
Publish(p) ==
    /\ pub[p] = "running"
    /\ \E outcome \in {"delivered", "failed"} : pub' = [pub EXCEPT ![p] = outcome]
    /\ UNCHANGED <<configuration, updated, store, devices, watchers, pc, call, loc, ret, calls, evts, dirty>>

\* ------------------------------------------------------- deviceprofile.go

RECURSIVE FirstInvalidUnit(_, _)
\* the index of the first device resource from i on whose units the validator
\* rejects, 0 when there is none: the loop of deviceProfileUoMValidation
FirstInvalidUnit(drs, i) ==
    IF i > Len(drs) THEN 0
    ELSE IF ~Validate(drs[i]) THEN i
    ELSE FirstInvalidUnit(drs, i + 1)

\* fault: only the first device resource is validated
deviceProfileUoMValidation_FirstOnly(d, dic) ==
    IF dic.UoMValidation /\ Len(d.deviceResources) > 0
            /\ ~Validate(d.deviceResources[1])
    THEN NewCommonEdgeX("ContractInvalid", "uom")
    ELSE Nil

deviceProfileUoMValidation(d, dic) ==
    IF dic.UoMValidation /\ FirstInvalidUnit(d.deviceResources, 1) > 0
    THEN NewCommonEdgeX("ContractInvalid", "uom")
    ELSE Nil

\* AddDeviceProfile, lines 33-36: unit validation
AddDeviceProfile(p) ==
    /\ pc[p] = "AddDeviceProfile"
    /\ LET err == deviceProfileUoMValidation(call[p].d, call[p].dic) IN
       IF err # Nil
       THEN Return(p, Err(NewCommonEdgeXWrapper(err), ""))
       ELSE Goto(p, "Add_insert")
    /\ NoWrite /\ NoPublish
    /\ UNCHANGED <<configuration, updated, devices, watchers, call, loc, calls>>

\* fault: the event is scheduled before the error of the insert is looked at
AddDeviceProfile_insert_PublishFirst(p) ==
    /\ pc[p] = "Add_insert"
    /\ \E fail \in BOOLEAN :
        LET r == DbAddDeviceProfile(store, call[p].d, fail) IN
        /\ Log(p, "AddDeviceProfile", r.err = Nil)
        /\ Write(p, r.store)
        /\ GoPublish(p, "add", FromDeviceProfileModelToDTO(r.profile))
        /\ IF r.err # Nil
           THEN Return(p, Err(NewCommonEdgeXWrapper(r.err), "")) /\ loc' = loc
           ELSE /\ Goto(p, "Add_return")
                /\ loc' = [loc EXCEPT ![p] = [addedDeviceProfile |-> r.profile]]
    /\ UNCHANGED <<configuration, updated, devices, watchers, call>>

\* AddDeviceProfile, lines 39-42: insert
AddDeviceProfile_insert(p) ==
    /\ pc[p] = "Add_insert"
    /\ \E fail \in BOOLEAN :
        LET r == DbAddDeviceProfile(store, call[p].d, fail) IN
        /\ Log(p, "AddDeviceProfile", r.err = Nil)
        /\ Write(p, r.store)
        /\ IF r.err # Nil
           THEN Return(p, Err(NewCommonEdgeXWrapper(r.err), "")) /\ loc' = loc
           ELSE /\ Goto(p, "Add_publish")
                /\ loc' = [loc EXCEPT ![p] = [addedDeviceProfile |-> r.profile]]
    /\ NoPublish
    /\ UNCHANGED <<configuration, updated, devices, watchers, call>>

\* AddDeviceProfile, lines 50-51: the event is scheduled
AddDeviceProfile_publish(p) ==
    /\ pc[p] = "Add_publish"
    /\ GoPublish(p, "add", FromDeviceProfileModelToDTO(loc[p].addedDeviceProfile))
    /\ Goto(p, "Add_return")
    /\ NoWrite
    /\ UNCHANGED <<configuration, updated, devices, watchers, call, loc, calls>>

\* fault: the handler waits for the goroutine before it returns
AddDeviceProfile_return_Awaited(p) ==
    /\ pc[p] = "Add_return"
    /\ pub[p] # "running"
    /\ Return(p, Ok(loc[p].addedDeviceProfile.id))
    /\ NoWrite /\ NoPublish
    /\ UNCHANGED <<configuration, updated, devices, watchers, call, loc, calls>>

\* AddDeviceProfile, line 53
AddDeviceProfile_return(p) ==
    /\ pc[p] = "Add_return"
    /\ Return(p, Ok(loc[p].addedDeviceProfile.id))
    /\ NoWrite /\ NoPublish
    /\ UNCHANGED <<configuration, updated, devices, watchers, call, loc, calls>>

\* checkResourceCapacityByUpdateProfile: the resource count the update implies
\* against the configured ceiling
checkResourceCapacityByUpdateProfile(d, dic) ==
    IF Len(d.deviceResources) > dic.MaxResources
    THEN NewCommonEdgeX("StatusConflict", "capacity")
    ELSE Nil

\* UpdateDeviceProfile, lines 63-66: unit validation
UpdateDeviceProfile(p) ==
    /\ pc[p] = "UpdateDeviceProfile"
    /\ LET err == deviceProfileUoMValidation(call[p].d, call[p].dic) IN
       IF err # Nil
       THEN Return(p, Err(NewCommonEdgeXWrapper(err), ""))
       ELSE Goto(p, "Update_capacity")
    /\ NoWrite /\ NoPublish
    /\ UNCHANGED <<configuration, updated, devices, watchers, call, loc, calls>>

\* fault: the capacity checker is consulted whatever the ceiling
UpdateDeviceProfile_capacity_Always(p) ==
    /\ pc[p] = "Update_capacity"
    /\ LET err == checkResourceCapacityByUpdateProfile(call[p].d, call[p].dic) IN
       /\ Log(p, "checkResourceCapacityByUpdateProfile", err = Nil)
       /\ IF err # Nil
          THEN Return(p, Err(NewCommonEdgeXWrapper(err), ""))
          ELSE Goto(p, "Update_replace")
    /\ NoWrite /\ NoPublish
    /\ UNCHANGED <<configuration, updated, devices, watchers, call, loc>>

\* UpdateDeviceProfile, lines 68-72: the capacity check, when a ceiling is set
UpdateDeviceProfile_capacity(p) ==
    /\ pc[p] = "Update_capacity"
    /\ IF call[p].dic.MaxResources > 0
       THEN LET err == checkResourceCapacityByUpdateProfile(call[p].d, call[p].dic) IN
            /\ Log(p, "checkResourceCapacityByUpdateProfile", err = Nil)
            /\ IF err # Nil
               THEN Return(p, Err(NewCommonEdgeXWrapper(err), ""))
               ELSE Goto(p, "Update_replace")
       ELSE Goto(p, "Update_replace") /\ calls' = calls
    /\ NoWrite /\ NoPublish
    /\ UNCHANGED <<configuration, updated, devices, watchers, call, loc>>

\* UpdateDeviceProfile, lines 74-77: replace
UpdateDeviceProfile_replace(p) ==
    /\ pc[p] = "Update_replace"
    /\ \E fail \in BOOLEAN :
        LET r == DbUpdateDeviceProfile(store, call[p].d, fail) IN
        /\ Log(p, "UpdateDeviceProfile", r.err = Nil)
        /\ Write(p, r.store)
        /\ IF r.err # Nil
           THEN Return(p, Err(NewCommonEdgeXWrapper(r.err), ""))
           ELSE Goto(p, "Update_fetch")
    /\ NoPublish
    /\ UNCHANGED <<configuration, updated, devices, watchers, call, loc>>

\* fault: the fetched profile is kept in a variable all requests share
UpdateDeviceProfile_fetch_Shared(p) ==
    /\ pc[p] = "Update_fetch"
    /\ \E fail \in BOOLEAN :
        LET r == DbDeviceProfileByName(store, call[p].d.name, fail) IN
        /\ Log(p, "DeviceProfileByName", r.err = Nil)
        /\ IF r.err # Nil
           THEN Return(p, Err(NewCommonEdgeXWrapper(r.err), "")) /\ loc' = loc
           ELSE /\ Goto(p, "Update_publish")
                /\ loc' = [q \in Procs |-> [profile |-> r.profile]]
    /\ NoWrite /\ NoPublish
    /\ UNCHANGED <<configuration, updated, devices, watchers, call>>

\* fault: a failed fetch is passed over and the profile as given is published
UpdateDeviceProfile_fetch_Swallowed(p) ==
    /\ pc[p] = "Update_fetch"
    /\ \E fail \in BOOLEAN :
        LET r == DbDeviceProfileByName(store, call[p].d.name, fail) IN
        /\ Log(p, "DeviceProfileByName", r.err = Nil)
        /\ Goto(p, "Update_publish")
        /\ loc' = [loc EXCEPT ![p] =
                     [profile |-> IF r.err # Nil THEN call[p].d ELSE r.profile]]
    /\ NoWrite /\ NoPublish
    /\ UNCHANGED <<configuration, updated, devices, watchers, call>>

\* UpdateDeviceProfile, lines 84-87: the profile is fetched again
UpdateDeviceProfile_fetch(p) ==
    /\ pc[p] = "Update_fetch"
    /\ \E fail \in BOOLEAN :
        LET r == DbDeviceProfileByName(store, call[p].d.name, fail) IN
        /\ Log(p, "DeviceProfileByName", r.err = Nil)
        /\ IF r.err # Nil
           THEN Return(p, Err(NewCommonEdgeXWrapper(r.err), "")) /\ loc' = loc
           ELSE /\ Goto(p, "Update_publish")
                /\ loc' = [loc EXCEPT ![p] = [profile |-> r.profile]]
    /\ NoWrite /\ NoPublish
    /\ UNCHANGED <<configuration, updated, devices, watchers, call>>

\* fault: the event carries the profile as given, not as fetched
UpdateDeviceProfile_publish_Input(p) ==
    /\ pc[p] = "Update_publish"
    /\ GoPublish(p, "update", FromDeviceProfileModelToDTO(call[p].d))
    /\ Goto(p, "Update_return")
    /\ NoWrite
    /\ UNCHANGED <<configuration, updated, devices, watchers, call, loc, calls>>

\* UpdateDeviceProfile, lines 89-90: the event is scheduled
UpdateDeviceProfile_publish(p) ==
    /\ pc[p] = "Update_publish"
    /\ GoPublish(p, "update", FromDeviceProfileModelToDTO(loc[p].profile))
    /\ Goto(p, "Update_return")
    /\ NoWrite
    /\ UNCHANGED <<configuration, updated, devices, watchers, call, loc, calls>>

\* UpdateDeviceProfile, line 92
UpdateDeviceProfile_return(p) ==
    /\ pc[p] = "Update_return"
    /\ Return(p, Ok(""))
    /\ NoWrite /\ NoPublish
    /\ UNCHANGED <<configuration, updated, devices, watchers, call, loc, calls>>

\* DeviceProfileByName, lines 106-108: the name must not be empty
DeviceProfileByName(p) ==
    /\ pc[p] = "DeviceProfileByName"
    /\ IF call[p].name = ""
       THEN Return(p, Err(NewCommonEdgeX("ContractInvalid", "name"), Nil))
       ELSE Goto(p, "ByName_fetch")
    /\ NoWrite /\ NoPublish
    /\ UNCHANGED <<configuration, updated, devices, watchers, call, loc, calls>>

\* DeviceProfileByName, lines 110-115
DeviceProfileByName_fetch(p) ==
    /\ pc[p] = "ByName_fetch"
    /\ \E fail \in BOOLEAN :
        LET r == DbDeviceProfileByName(store, call[p].name, fail) IN
        /\ Log(p, "DeviceProfileByName", r.err = Nil)
        /\ IF r.err # Nil
           THEN Return(p, Err(NewCommonEdgeXWrapper(r.err), Nil))
           ELSE Return(p, Ok(FromDeviceProfileModelToDTO(r.profile)))
    /\ NoWrite /\ NoPublish
    /\ UNCHANGED <<configuration, updated, devices, watchers, call, loc>>

\* fault: the name is checked before the strict-deletes flag
DeleteDeviceProfileByName_NameFirst(p) ==
    /\ pc[p] = "DeleteDeviceProfileByName"
    /\ IF call[p].name = ""
       THEN Return(p, Err(NewCommonEdgeX("ContractInvalid", "name"), ""))
       ELSE IF call[p].dic.StrictDeviceProfileDeletes
       THEN Return(p, Err(NewCommonEdgeX("ServiceLocked", "strict"), ""))
       ELSE Goto(p, "Delete_fetch")
    /\ NoWrite /\ NoPublish
    /\ UNCHANGED <<configuration, updated, devices, watchers, call, loc, calls>>

\* DeleteDeviceProfileByName, lines 120-126: the strict-deletes flag, then the name
DeleteDeviceProfileByName(p) ==
    /\ pc[p] = "DeleteDeviceProfileByName"
    /\ IF call[p].dic.StrictDeviceProfileDeletes
       THEN Return(p, Err(NewCommonEdgeX("ServiceLocked", "strict"), ""))
       ELSE IF call[p].name = ""
       THEN Return(p, Err(NewCommonEdgeX("ContractInvalid", "name"), ""))
       ELSE Goto(p, "Delete_fetch")
    /\ NoWrite /\ NoPublish
    /\ UNCHANGED <<configuration, updated, devices, watchers, call, loc, calls>>

\* DeleteDeviceProfileByName, lines 128-131: the profile must exist
DeleteDeviceProfileByName_fetch(p) ==
    /\ pc[p] = "Delete_fetch"
    /\ \E fail \in BOOLEAN :
        LET r == DbDeviceProfileByName(store, call[p].name, fail) IN
        /\ Log(p, "DeviceProfileByName", r.err = Nil)
        /\ IF r.err # Nil
           THEN Return(p, Err(NewCommonEdgeXWrapper(r.err), "")) /\ loc' = loc
           ELSE /\ Goto(p, "Delete_devices")
                /\ loc' = [loc EXCEPT ![p] = [profile |-> r.profile]]
    /\ NoWrite /\ NoPublish
    /\ UNCHANGED <<configuration, updated, devices, watchers, call>>

\* fault: the provision watchers are looked up before the devices
DeleteDeviceProfileByName_devices_WatchersFirst(p) ==
    /\ pc[p] = "Delete_devices"
    /\ \E fail \in BOOLEAN :
        LET w == DbRefsByProfileName(watchers, call[p].name, fail, "watchers")
            r == DbRefsByProfileName(devices, call[p].name, fail, "devices") IN
        IF w.err # Nil \/ Len(w.rows) > 0
        THEN /\ Log(p, "ProvisionWatchersByProfileName", w.err = Nil)
             /\ IF w.err # Nil
                THEN Return(p, Err(NewCommonEdgeXWrapper(w.err), ""))
                ELSE Return(p, Err(NewCommonEdgeX("StatusConflict", "watchers"), ""))
        ELSE /\ Log(p, "DevicesByProfileName", r.err = Nil)
             /\ IF Len(r.rows) > 0
                THEN Return(p, Err(NewCommonEdgeX("StatusConflict", "devices"), ""))
                ELSE Goto(p, "Delete_watchers")
    /\ NoWrite /\ NoPublish
    /\ UNCHANGED <<configuration, updated, devices, watchers, call, loc>>

\* fault: the event is scheduled once the gates have passed, before the deletion
DeleteDeviceProfileByName_watchers_PublishEarly(p) ==
    /\ pc[p] = "Delete_watchers"
    /\ \E fail \in BOOLEAN :
        LET r == DbRefsByProfileName(watchers, call[p].name, fail, "watchers") IN
        /\ Log(p, "ProvisionWatchersByProfileName", r.err = Nil)
        /\ IF r.err # Nil
           THEN Return(p, Err(NewCommonEdgeXWrapper(r.err), "")) /\ NoPublish
           ELSE IF Len(r.rows) > 0
           THEN Return(p, Err(NewCommonEdgeX("StatusConflict", "watchers"), "")) /\ NoPublish
           ELSE /\ Goto(p, "Delete_delete")
                /\ GoPublish(p, "delete", FromDeviceProfileModelToDTO(loc[p].profile))
    /\ NoWrite
    /\ UNCHANGED <<configuration, updated, devices, watchers, call, loc>>

\* DeleteDeviceProfileByName, lines 133-139: no device may reference the profile
DeleteDeviceProfileByName_devices(p) ==
    /\ pc[p] = "Delete_devices"
    /\ \E fail \in BOOLEAN :
        LET r == DbRefsByProfileName(devices, call[p].name, fail, "devices") IN
        /\ Log(p, "DevicesByProfileName", r.err = Nil)
        /\ IF r.err # Nil
           THEN Return(p, Err(NewCommonEdgeXWrapper(r.err), ""))
           ELSE IF Len(r.rows) > 0
           THEN Return(p, Err(NewCommonEdgeX("StatusConflict", "devices"), ""))
           ELSE Goto(p, "Delete_watchers")
    /\ NoWrite /\ NoPublish
    /\ UNCHANGED <<configuration, updated, devices, watchers, call, loc>>

\* fault: the provision watchers found are not looked at
DeleteDeviceProfileByName_watchers_Ignored(p) ==
    /\ pc[p] = "Delete_watchers"
    /\ \E fail \in BOOLEAN :
        LET r == DbRefsByProfileName(watchers, call[p].name, fail, "watchers") IN
        /\ Log(p, "ProvisionWatchersByProfileName", r.err = Nil)
        /\ IF r.err # Nil
           THEN Return(p, Err(NewCommonEdgeXWrapper(r.err), ""))
           ELSE Goto(p, "Delete_delete")
    /\ NoWrite /\ NoPublish
    /\ UNCHANGED <<configuration, updated, devices, watchers, call, loc>>

\* DeleteDeviceProfileByName, lines 140-146: nor may a provision watcher
DeleteDeviceProfileByName_watchers(p) ==
    /\ pc[p] = "Delete_watchers"
    /\ \E fail \in BOOLEAN :
        LET r == DbRefsByProfileName(watchers, call[p].name, fail, "watchers") IN
        /\ Log(p, "ProvisionWatchersByProfileName", r.err = Nil)
        /\ IF r.err # Nil
           THEN Return(p, Err(NewCommonEdgeXWrapper(r.err), ""))
           ELSE IF Len(r.rows) > 0
           THEN Return(p, Err(NewCommonEdgeX("StatusConflict", "watchers"), ""))
           ELSE Goto(p, "Delete_delete")
    /\ NoWrite /\ NoPublish
    /\ UNCHANGED <<configuration, updated, devices, watchers, call, loc>>

\* DeleteDeviceProfileByName, lines 148-151: the deletion
DeleteDeviceProfileByName_delete(p) ==
    /\ pc[p] = "Delete_delete"
    /\ \E fail \in BOOLEAN :
        LET r == DbDeleteDeviceProfileByName(store, call[p].name, fail) IN
        /\ Log(p, "DeleteDeviceProfileByName", r.err = Nil)
        /\ Write(p, r.store)
        /\ IF r.err # Nil
           THEN Return(p, Err(NewCommonEdgeXWrapper(r.err), ""))
           ELSE Goto(p, "Delete_publish")
    /\ NoPublish
    /\ UNCHANGED <<configuration, updated, devices, watchers, call, loc>>

\* DeleteDeviceProfileByName, lines 153-154: the event is scheduled
DeleteDeviceProfileByName_publish(p) ==
    /\ pc[p] = "Delete_publish"
    /\ GoPublish(p, "delete", FromDeviceProfileModelToDTO(loc[p].profile))
    /\ Goto(p, "Delete_return")
    /\ NoWrite
    /\ UNCHANGED <<configuration, updated, devices, watchers, call, loc, calls>>

\* DeleteDeviceProfileByName, line 156
DeleteDeviceProfileByName_return(p) ==
    /\ pc[p] = "Delete_return"
    /\ Return(p, Ok(""))
    /\ NoWrite /\ NoPublish
    /\ UNCHANGED <<configuration, updated, devices, watchers, call, loc, calls>>

\* a nil pointer field of dtos.UpdateDeviceProfileBasicInfo
NilPtr == "<nil>"

\* fault: the name of the payload is not compared with that of the record
deviceProfileByDTO_NoNameCheck(st, dto, fail) ==
    LET byId == dto.id # NilPtr /\ dto.id # ""
        r == IF byId THEN DbDeviceProfileById(st, dto.id, fail)
             ELSE DbDeviceProfileByName(st, dto.name, fail)
        storeCall == IF byId THEN "DeviceProfileById" ELSE "DeviceProfileByName"
    IN  IF ~byId /\ dto.name = NilPtr THEN
            [panic |-> TRUE, err |-> Nil, profile |-> Nil, storeCalls |-> <<>>]
        ELSE IF r.err # Nil THEN
            [panic |-> FALSE, err |-> NewCommonEdgeXWrapper(r.err), profile |-> Nil,
             storeCalls |-> <<[op |-> storeCall, ok |-> FALSE]>>]
        ELSE
            [panic |-> FALSE, err |-> Nil, profile |-> r.profile,
             storeCalls |-> <<[op |-> storeCall, ok |-> TRUE]>>]

\* deviceProfileByDTO, lines 316-333.  Dereferencing a nil dto.Name panics.
deviceProfileByDTO(st, dto, fail) ==
    LET byId == dto.id # NilPtr /\ dto.id # ""
        r == IF byId THEN DbDeviceProfileById(st, dto.id, fail)
             ELSE DbDeviceProfileByName(st, dto.name, fail)
        storeCall == IF byId THEN "DeviceProfileById" ELSE "DeviceProfileByName"
    IN  IF ~byId /\ dto.name = NilPtr THEN
            [panic |-> TRUE, err |-> Nil, profile |-> Nil, storeCalls |-> <<>>]
        ELSE IF r.err # Nil THEN
            [panic |-> FALSE, err |-> NewCommonEdgeXWrapper(r.err), profile |-> Nil,
             storeCalls |-> <<[op |-> storeCall, ok |-> FALSE]>>]
        ELSE IF dto.name # NilPtr /\ dto.name # r.profile.name THEN
            [panic |-> FALSE, err |-> NewCommonEdgeX("ContractInvalid", "nameMismatch"),
             profile |-> r.profile, storeCalls |-> <<[op |-> storeCall, ok |-> TRUE]>>]
        ELSE
            [panic |-> FALSE, err |-> Nil, profile |-> r.profile,
             storeCalls |-> <<[op |-> storeCall, ok |-> TRUE]>>]

\* requests.ReplaceDeviceProfileModelBasicInfoFieldsWithDTO: the fields the
\* payload carries replace those of the record
ReplaceDeviceProfileModelBasicInfoFieldsWithDTO(dp, dto) ==
    [dp EXCEPT !.manufacturer = IF dto.manufacturer # NilPtr THEN dto.manufacturer ELSE @,
               !.model = IF dto.model # NilPtr THEN dto.model ELSE @]

\* PatchDeviceProfileBasicInfo, lines 270-273: the record the payload selects
PatchDeviceProfileBasicInfo(p) ==
    /\ pc[p] = "PatchDeviceProfileBasicInfo"
    /\ \E fail \in BOOLEAN :
        LET r == deviceProfileByDTO(store, call[p].dto, fail) IN
        /\ calls' = [calls EXCEPT ![p] = @ \o r.storeCalls]
        /\ IF r.panic
           THEN Return(p, [status |-> "panic"]) /\ loc' = loc
           ELSE IF r.err # Nil
           THEN Return(p, Err(NewCommonEdgeXWrapper(r.err), "")) /\ loc' = loc
           ELSE /\ Goto(p, "Patch_replace")
                /\ loc' = [loc EXCEPT ![p] = [deviceProfile |-> r.profile]]
    /\ NoWrite /\ NoPublish
    /\ UNCHANGED <<configuration, updated, devices, watchers, call>>

\* fault: the record is built from the payload, the resources are not carried over
PatchDeviceProfileBasicInfo_replace_DropsResources(p) ==
    /\ pc[p] = "Patch_replace"
    /\ \E fail \in BOOLEAN :
        LET merged == [ReplaceDeviceProfileModelBasicInfoFieldsWithDTO(
                           loc[p].deviceProfile, call[p].dto)
                       EXCEPT !.deviceResources = <<>>]
            r == DbUpdateDeviceProfile(store, merged, fail) IN
        /\ loc' = [loc EXCEPT ![p] = [deviceProfile |-> merged]]
        /\ Log(p, "UpdateDeviceProfile", r.err = Nil)
        /\ Write(p, r.store)
        /\ IF r.err # Nil
           THEN Return(p, Err(NewCommonEdgeXWrapper(r.err), ""))
           ELSE Goto(p, "Patch_publish")
    /\ NoPublish
    /\ UNCHANGED <<configuration, updated, devices, watchers, call>>

\* PatchDeviceProfileBasicInfo, lines 275-279: merge and replace
PatchDeviceProfileBasicInfo_replace(p) ==
    /\ pc[p] = "Patch_replace"
    /\ \E fail \in BOOLEAN :
        LET merged == ReplaceDeviceProfileModelBasicInfoFieldsWithDTO(
                          loc[p].deviceProfile, call[p].dto)
            r == DbUpdateDeviceProfile(store, merged, fail) IN
        /\ loc' = [loc EXCEPT ![p] = [deviceProfile |-> merged]]
        /\ Log(p, "UpdateDeviceProfile", r.err = Nil)
        /\ Write(p, r.store)
        /\ IF r.err # Nil
           THEN Return(p, Err(NewCommonEdgeXWrapper(r.err), ""))
           ELSE Goto(p, "Patch_publish")
    /\ NoPublish
    /\ UNCHANGED <<configuration, updated, devices, watchers, call>>

\* PatchDeviceProfileBasicInfo, lines 286-287: the event is scheduled
PatchDeviceProfileBasicInfo_publish(p) ==
    /\ pc[p] = "Patch_publish"
    /\ GoPublish(p, "update", FromDeviceProfileModelToDTO(loc[p].deviceProfile))
    /\ Goto(p, "Patch_return")
    /\ NoWrite
    /\ UNCHANGED <<configuration, updated, devices, watchers, call, loc, calls>>

\* PatchDeviceProfileBasicInfo, line 289
PatchDeviceProfileBasicInfo_return(p) ==
    /\ pc[p] = "Patch_return"
    /\ Return(p, Ok(""))
    /\ NoWrite /\ NoPublish
    /\ UNCHANGED <<configuration, updated, devices, watchers, call, loc, calls>>

\* ---------------------------------------------------------------- listing

\* whether a stored profile matches the filter of a count or list call
Matches(dp, f) ==
    CASE f.kind = "labels" -> f.labels \subseteq dp.labels
      [] f.kind = "model" -> dp.model = f.model
      [] f.kind = "manufacturer" -> dp.manufacturer = f.manufacturer
      [] f.kind = "manufacturerAndModel" ->
            dp.manufacturer = f.manufacturer /\ dp.model = f.model

MatchingNames(st, f) == {n \in DOMAIN st : Matches(st[n], f)}

RECURSIVE InNameOrder(_, _)
\* the profiles of those names, in the order the store lists them
InNameOrder(st, ns) ==
    IF ns = {} THEN <<>>
    ELSE LET n == IF "p1" \in ns THEN "p1" ELSE CHOOSE m \in ns : TRUE
         IN  <<st[n]>> \o InNameOrder(st, ns \ {n})

\* dbClient.DeviceProfileCountByLabels / ...ByModel / ...ByManufacturer /
\* ...ByManufacturerAndModel
DbDeviceProfileCount(st, f, fail) ==
    IF fail THEN [err |-> NewCommonEdgeX("DatabaseError", "count"), count |-> 0]
    ELSE [err |-> Nil, count |-> Cardinality(MatchingNames(st, f))]

\* dbClient.AllDeviceProfiles / DeviceProfilesByModel / ...ByManufacturer /
\* ...ByManufacturerAndModel: the window of the matching profiles; a negative
\* limit is no limit
DbDeviceProfiles(st, offset, limit, f, fail) ==
    IF fail THEN [err |-> NewCommonEdgeX("DatabaseError", "list"), rows |-> <<>>]
    ELSE LET all == InNameOrder(st, MatchingNames(st, f))
             last == IF limit < 0 \/ offset + limit > Len(all)
                     THEN Len(all) ELSE offset + limit
         IN  [err |-> Nil, rows |-> SubSeq(all, offset + 1, last)]

\* utils.CheckCountRange: whether the window can be served
CheckCountRange(totalCount, offset, limit) ==
    IF offset < 0 THEN
        [cont |-> FALSE, err |-> NewCommonEdgeX("ContractInvalid", "range")]
    ELSE IF limit = 0 \/ totalCount = 0 \/ offset > totalCount THEN
        [cont |-> FALSE, err |-> Nil]
    ELSE
        [cont |-> TRUE, err |-> Nil]

\* what a listing returns: (page, totalCount, err); a nil page is not an empty one
Listing(page, isNil, totalCount) ==
    [page |-> page, isNil |-> isNil, totalCount |-> totalCount]

ListReturn(p, err, val) ==
    IF err # Nil THEN Return(p, Err(err, val)) ELSE Return(p, Ok(val))

\* fault: out of range, the total is returned as that of the empty page
ListCount_PageTotal(p, storeCall, f, emptyIsNil, next) ==
    /\ \E fail \in BOOLEAN :
        LET r == DbDeviceProfileCount(store, f, fail)
            c == CheckCountRange(r.count, call[p].offset, call[p].limit) IN
        /\ Log(p, storeCall, r.err = Nil)
        /\ IF r.err # Nil THEN
               /\ Return(p, Err(NewCommonEdgeXWrapper(r.err), Listing(<<>>, TRUE, r.count)))
               /\ loc' = loc
           ELSE IF ~c.cont THEN
               /\ ListReturn(p, c.err, Listing(<<>>, emptyIsNil, 0))
               /\ loc' = loc
           ELSE
               /\ Goto(p, next)
               /\ loc' = [loc EXCEPT ![p] = [totalCount |-> r.count]]
    /\ NoWrite /\ NoPublish
    /\ UNCHANGED <<configuration, updated, devices, watchers, call>>

\* fault: the page is fetched although the range check said not to go on
ListCount_FetchAnyway(p, storeCall, f, emptyIsNil, next) ==
    /\ \E fail \in BOOLEAN :
        LET r == DbDeviceProfileCount(store, f, fail)
            c == CheckCountRange(r.count, call[p].offset, call[p].limit) IN
        /\ Log(p, storeCall, r.err = Nil)
        /\ IF r.err # Nil THEN
               /\ Return(p, Err(NewCommonEdgeXWrapper(r.err), Listing(<<>>, TRUE, r.count)))
               /\ loc' = loc
           ELSE IF c.err # Nil THEN
               /\ ListReturn(p, c.err, Listing(<<>>, emptyIsNil, r.count))
               /\ loc' = loc
           ELSE
               /\ Goto(p, next)
               /\ loc' = [loc EXCEPT ![p] = [totalCount |-> r.count]]
    /\ NoWrite /\ NoPublish
    /\ UNCHANGED <<configuration, updated, devices, watchers, call>>

\* the count call and the range check of a listing (lines 163-170, 190-197,
\* 217-224, 246-253, 296-303); emptyIsNil: the page returned out of range is nil
ListCount(p, storeCall, f, emptyIsNil, next) ==
    /\ \E fail \in BOOLEAN :
        LET r == DbDeviceProfileCount(store, f, fail)
            c == CheckCountRange(r.count, call[p].offset, call[p].limit) IN
        /\ Log(p, storeCall, r.err = Nil)
        /\ IF r.err # Nil THEN
               /\ Return(p, Err(NewCommonEdgeXWrapper(r.err), Listing(<<>>, TRUE, r.count)))
               /\ loc' = loc
           ELSE IF ~c.cont THEN
               /\ ListReturn(p, c.err, Listing(<<>>, emptyIsNil, r.count))
               /\ loc' = loc
           ELSE
               /\ Goto(p, next)
               /\ loc' = [loc EXCEPT ![p] = [totalCount |-> r.count]]
    /\ NoWrite /\ NoPublish
    /\ UNCHANGED <<configuration, updated, devices, watchers, call>>

\* the loop that projects each row: to the basic-info DTO or to the full DTO
ProjectRows(rows, basicInfo) ==
    [i \in 1..Len(rows) |->
        IF basicInfo THEN FromDeviceProfileModelToBasicInfoDTO(rows[i])
        ELSE FromDeviceProfileModelToDTO(rows[i])]

\* the page fetch of a listing and the projection of its rows (lines 172-180,
\* 199-207, 226-234, 255-263, 305-313)
ListFetch(p, storeCall, f, basicInfo) ==
    /\ \E fail \in BOOLEAN :
        LET r == DbDeviceProfiles(store, call[p].offset, call[p].limit, f, fail) IN
        /\ Log(p, storeCall, r.err = Nil)
        /\ IF r.err # Nil
           THEN Return(p, Err(NewCommonEdgeXWrapper(r.err),
                              Listing(<<>>, TRUE, loc[p].totalCount)))
           ELSE Return(p, Ok(Listing(ProjectRows(r.rows, basicInfo), FALSE, loc[p].totalCount)))
    /\ NoWrite /\ NoPublish
    /\ UNCHANGED <<configuration, updated, devices, watchers, call, loc>>

\* a required filter field is empty: the listing fails before any store call
ListRequire(p, missing, next) ==
    /\ IF missing # ""
       THEN Return(p, Err(NewCommonEdgeX("ContractInvalid", missing), Listing(<<>>, TRUE, 0)))
       ELSE Goto(p, next)
    /\ NoWrite /\ NoPublish
    /\ UNCHANGED <<configuration, updated, devices, watchers, call, loc, calls>>

LabelsFilter(c) == [kind |-> "labels", labels |-> c.labels]
ModelFilter(c) == [kind |-> "model", model |-> c.model]
ManufacturerFilter(c) == [kind |-> "manufacturer", manufacturer |-> c.manufacturer]
ManufacturerAndModelFilter(c) ==
    [kind |-> "manufacturerAndModel", manufacturer |-> c.manufacturer, model |-> c.model]

\* AllDeviceProfiles, lines 163-170
AllDeviceProfiles(p) ==
    /\ pc[p] = "AllDeviceProfiles"
    /\ ListCount(p, "DeviceProfileCountByLabels", LabelsFilter(call[p]), FALSE, "All_fetch")

\* AllDeviceProfiles, lines 172-180
AllDeviceProfiles_fetch(p) ==
    /\ pc[p] = "All_fetch"
    /\ ListFetch(p, "AllDeviceProfiles", LabelsFilter(call[p]), FALSE)

\* DeviceProfilesByModel, lines 185-187
DeviceProfilesByModel(p) ==
    /\ pc[p] = "DeviceProfilesByModel"
    /\ ListRequire(p, IF call[p].model = "" THEN "model" ELSE "", "ByModel_count")

\* DeviceProfilesByModel, lines 190-197
DeviceProfilesByModel_count(p) ==
    /\ pc[p] = "ByModel_count"
    /\ ListCount(p, "DeviceProfileCountByModel", ModelFilter(call[p]), FALSE, "ByModel_fetch")

\* DeviceProfilesByModel, lines 199-207
DeviceProfilesByModel_fetch(p) ==
    /\ pc[p] = "ByModel_fetch"
    /\ ListFetch(p, "DeviceProfilesByModel", ModelFilter(call[p]), FALSE)

\* DeviceProfilesByManufacturer, lines 212-214
DeviceProfilesByManufacturer(p) ==
    /\ pc[p] = "DeviceProfilesByManufacturer"
    /\ ListRequire(p, IF call[p].manufacturer = "" THEN "manufacturer" ELSE "",
                   "ByManufacturer_count")

\* DeviceProfilesByManufacturer, lines 217-224
DeviceProfilesByManufacturer_count(p) ==
    /\ pc[p] = "ByManufacturer_count"
    /\ ListCount(p, "DeviceProfileCountByManufacturer", ManufacturerFilter(call[p]),
                 FALSE, "ByManufacturer_fetch")

\* DeviceProfilesByManufacturer, lines 226-234
DeviceProfilesByManufacturer_fetch(p) ==
    /\ pc[p] = "ByManufacturer_fetch"
    /\ ListFetch(p, "DeviceProfilesByManufacturer", ManufacturerFilter(call[p]), FALSE)

\* fault: only the manufacturer is required
DeviceProfilesByManufacturerAndModel_ManufacturerOnly(p) ==
    /\ pc[p] = "DeviceProfilesByManufacturerAndModel"
    /\ ListRequire(p, IF call[p].manufacturer = "" THEN "manufacturer" ELSE "",
                   "ByManufacturerAndModel_count")

\* DeviceProfilesByManufacturerAndModel, lines 239-244
DeviceProfilesByManufacturerAndModel(p) ==
    /\ pc[p] = "DeviceProfilesByManufacturerAndModel"
    /\ ListRequire(p, IF call[p].manufacturer = "" THEN "manufacturer"
                      ELSE IF call[p].model = "" THEN "model" ELSE "",
                   "ByManufacturerAndModel_count")

\* DeviceProfilesByManufacturerAndModel, lines 246-253
DeviceProfilesByManufacturerAndModel_count(p) ==
    /\ pc[p] = "ByManufacturerAndModel_count"
    /\ ListCount(p, "DeviceProfileCountByManufacturerAndModel",
                 ManufacturerAndModelFilter(call[p]), FALSE, "ByManufacturerAndModel_fetch")

\* DeviceProfilesByManufacturerAndModel, lines 255-263
DeviceProfilesByManufacturerAndModel_fetch(p) ==
    /\ pc[p] = "ByManufacturerAndModel_fetch"
    /\ ListFetch(p, "DeviceProfilesByManufacturerAndModel",
                 ManufacturerAndModelFilter(call[p]), FALSE)

\* AllDeviceProfileBasicInfos, lines 296-303
AllDeviceProfileBasicInfos(p) ==
    /\ pc[p] = "AllDeviceProfileBasicInfos"
    /\ ListCount(p, "DeviceProfileCountByLabels", LabelsFilter(call[p]), TRUE,
                 "BasicInfos_fetch")

\* AllDeviceProfileBasicInfos, lines 305-313
AllDeviceProfileBasicInfos_fetch(p) ==
    /\ pc[p] = "BasicInfos_fetch"
    /\ ListFetch(p, "AllDeviceProfiles", LabelsFilter(call[p]), TRUE)

\* ------------------------------------------------------------ environment
\* Devices and provision watchers are stored by other handlers of the
\* service; each names an existing profile when it is stored.

DeviceStored(n) ==
    /\ n \in DOMAIN store /\ n \notin devices
    /\ devices' = devices \cup {n}
    /\ UNCHANGED <<configuration, updated, store, watchers, pc, call, loc, ret, calls, evts, pub, dirty>>

DeviceRemoved(n) ==
    /\ n \in devices
    /\ devices' = devices \ {n}
    /\ UNCHANGED <<configuration, updated, store, watchers, pc, call, loc, ret, calls, evts, pub, dirty>>

WatcherStored(n) ==
    /\ n \in DOMAIN store /\ n \notin watchers
    /\ watchers' = watchers \cup {n}
    /\ UNCHANGED <<configuration, updated, store, devices, pc, call, loc, ret, calls, evts, pub, dirty>>

WatcherRemoved(n) ==
    /\ n \in watchers
    /\ watchers' = watchers \ {n}
    /\ UNCHANGED <<configuration, updated, store, devices, pc, call, loc, ret, calls, evts, pub, dirty>>

\* the profiles devices and provision watchers are stored for
ReferencedNames == Names

Environment ==
    \E n \in ReferencedNames :
        DeviceStored(n) \/ DeviceRemoved(n) \/ WatcherStored(n) \/ WatcherRemoved(n)

\* ------------------------------------------------------------- the calls

\* the ceilings Writable.MaxResources is configured with (0: no ceiling)
ResourceCeilings == {0, 1}

AddCalls(P) ==
    [op : {"AddDeviceProfile"}, d : P, dic : [UoMValidation : BOOLEAN]]

UpdateCalls(P) ==
    [op : {"UpdateDeviceProfile"}, d : P,
     dic : [UoMValidation : BOOLEAN, MaxResources : ResourceCeilings]]

PatchCalls(mans, mods) ==
    [op : {"PatchDeviceProfileBasicInfo"},
     dto : [id : {NilPtr, ""} \cup Ids, name : {NilPtr, ""} \cup Names,
            manufacturer : {NilPtr} \cup mans, model : {NilPtr} \cup mods]]

DeleteCalls ==
    [op : {"DeleteDeviceProfileByName"}, name : {""} \cup Names,
     dic : [StrictDeviceProfileDeletes : BOOLEAN]]

ByNameCalls == [op : {"DeviceProfileByName"}, name : {""} \cup Names]

\* the profiles the mutation calls are given: p1 with every resource list,
\* p2 without resources
MutationProfiles ==
    ProfilesOver({"p1"}, {"acme"}, {"t1"}, {{}}, MaxResourcesLen)
        \cup ProfilesOver({"p2"}, {"acme"}, {"t1"}, {{}}, 0)

MutationCalls ==
    AddCalls(MutationProfiles) \cup UpdateCalls(MutationProfiles)
        \cup PatchCalls({"bolt"}, {}) \cup DeleteCalls

Handlers(p) ==
    \/ AddDeviceProfile(p) \/ AddDeviceProfile_insert(p)
    \/ AddDeviceProfile_publish(p) \/ AddDeviceProfile_return(p)
    \/ UpdateDeviceProfile(p) \/ UpdateDeviceProfile_capacity(p)
    \/ UpdateDeviceProfile_replace(p) \/ UpdateDeviceProfile_fetch(p)
    \/ UpdateDeviceProfile_publish(p) \/ UpdateDeviceProfile_return(p)
    \/ PatchDeviceProfileBasicInfo(p) \/ PatchDeviceProfileBasicInfo_replace(p)
    \/ PatchDeviceProfileBasicInfo_publish(p) \/ PatchDeviceProfileBasicInfo_return(p)
    \/ DeleteDeviceProfileByName(p) \/ DeleteDeviceProfileByName_fetch(p)
    \/ DeleteDeviceProfileByName_devices(p) \/ DeleteDeviceProfileByName_watchers(p)
    \/ DeleteDeviceProfileByName_delete(p) \/ DeleteDeviceProfileByName_publish(p)
    \/ DeleteDeviceProfileByName_return(p)

\* one request at a time
Next ==
    \/ \E c \in MutationCalls : Start("a", c)
    \/ Handlers("a")
    \/ Publish("a")
    \/ Respond("a")
    \/ ((\A p \in Procs : pc[p] = "idle") /\ Environment)

Spec == Init /\ [][Next]_vars

\* ------------------------------------------------------ the listing calls

Offsets == -1..MaxOffset
Limits == -1..MaxLimit

ListCalls ==
    [op : {"AllDeviceProfiles", "AllDeviceProfileBasicInfos"},
     offset : Offsets, limit : Limits, labels : SUBSET LabelSet]
    \cup [op : {"DeviceProfilesByModel"},
          offset : Offsets, limit : Limits, model : {""} \cup Models]
    \cup [op : {"DeviceProfilesByManufacturer"},
          offset : Offsets, limit : Limits, manufacturer : {""} \cup Manufacturers]
    \cup [op : {"DeviceProfilesByManufacturerAndModel"},
          offset : Offsets, limit : Limits,
          manufacturer : {""} \cup Manufacturers, model : {""} \cup Models]

\* the profiles the listings are run over
ListedProfiles == ProfilesOver(Names, Manufacturers, Models, SUBSET LabelSet, 0)

ReadCalls ==
    AddCalls(ListedProfiles)
        \cup {c \in DeleteCalls : ~c.dic.StrictDeviceProfileDeletes /\ c.name # ""}
        \cup ListCalls \cup ByNameCalls

ReadHandlers(p) ==
    \/ AddDeviceProfile(p) \/ AddDeviceProfile_insert(p)
    \/ AddDeviceProfile_publish(p) \/ AddDeviceProfile_return(p)
    \/ DeleteDeviceProfileByName(p) \/ DeleteDeviceProfileByName_fetch(p)
    \/ DeleteDeviceProfileByName_devices(p) \/ DeleteDeviceProfileByName_watchers(p)
    \/ DeleteDeviceProfileByName_delete(p) \/ DeleteDeviceProfileByName_publish(p)
    \/ DeleteDeviceProfileByName_return(p)
    \/ DeviceProfileByName(p) \/ DeviceProfileByName_fetch(p)
    \/ AllDeviceProfiles(p) \/ AllDeviceProfiles_fetch(p)
    \/ DeviceProfilesByModel(p) \/ DeviceProfilesByModel_count(p)
    \/ DeviceProfilesByModel_fetch(p)
    \/ DeviceProfilesByManufacturer(p) \/ DeviceProfilesByManufacturer_count(p)
    \/ DeviceProfilesByManufacturer_fetch(p)
    \/ DeviceProfilesByManufacturerAndModel(p)
    \/ DeviceProfilesByManufacturerAndModel_count(p)
    \/ DeviceProfilesByManufacturerAndModel_fetch(p)
    \/ AllDeviceProfileBasicInfos(p) \/ AllDeviceProfileBasicInfos_fetch(p)

\* the lookups and listings, one request at a time, over profiles that
\* differ in manufacturer, model and labels
NextRead ==
    \/ \E c \in ReadCalls : Start("a", c)
    \/ ReadHandlers("a")
    \/ Publish("a")
    \/ Respond("a")

SpecRead == Init /\ [][NextRead]_vars

\* ------------------------------------------------- the concurrent requests
\* Handlers run on the goroutine of their request: two requests interleave at
\* every store call and every go statement, and nothing in this layer locks.

ProfileOf(n, drs) ==
    [id |-> "", name |-> n, manufacturer |-> "acme", model |-> "t1",
     labels |-> {}, deviceResources |-> drs]

\* the mutation calls on the profile named n that the concurrent requests make
CallsOn(n) ==
    {[op |-> "AddDeviceProfile", d |-> ProfileOf(n, <<>>),
      dic |-> [UoMValidation |-> FALSE]]}
    \cup {[op |-> "UpdateDeviceProfile", d |-> ProfileOf(n, drs),
           dic |-> [UoMValidation |-> FALSE, MaxResources |-> 0]] :
                drs \in {<<>>, <<"degC">>}}
    \cup {[op |-> "PatchDeviceProfileBasicInfo",
           dto |-> [id |-> NilPtr, name |-> n, manufacturer |-> "bolt",
                    model |-> NilPtr]]}
    \cup {[op |-> "DeleteDeviceProfileByName", name |-> n,
           dic |-> [StrictDeviceProfileDeletes |-> FALSE]]}

\* two requests at a time, on different profiles, while devices are stored and
\* removed
NextConc ==
    \/ \E c \in CallsOn("p1") : Start("a", c)
    \/ \E c \in CallsOn("p2") : Start("b", c)
    \/ \E n \in Names : DeviceStored(n) \/ DeviceRemoved(n)
    \/ \E p \in Procs : Handlers(p)
    \/ \E p \in Procs : Respond(p)

SpecConc == Init /\ [][NextConc]_vars

\* two requests at a time on the same profile, while devices and provision
\* watchers that reference it are stored and removed
NextRace ==
    \/ \E p \in Procs : \E c \in CallsOn("p1") : Start(p, c)
    \/ \E p \in Procs : Handlers(p)
    \/ \E p \in Procs : Respond(p)
    \/ DeviceStored("p1") \/ DeviceRemoved("p1")
    \/ WatcherStored("p1") \/ WatcherRemoved("p1")

SpecRace == Init /\ [][NextRace]_vars

\* ---------------------------------------------- the configuration updates

\* fault: only the writable section of the given configuration is taken over
UpdateFromRaw_WritableOnly(rawConfig) ==
    LET ok == rawConfig.type = "*ConfigurationStruct" IN
    /\ IF ok /\ rawConfig.val = NilPointer THEN
           /\ configuration' = configuration
           /\ updated' = [op |-> "UpdateFromRaw", raw |-> rawConfig, returned |-> <<>>]
       ELSE
           /\ configuration' = IF ok
                                THEN [configuration EXCEPT !.Writable = rawConfig.val.Writable]
                                ELSE configuration
           /\ updated' = [op |-> "UpdateFromRaw", raw |-> rawConfig, returned |-> <<ok>>]
    /\ UNCHANGED <<store, devices, watchers, pc, call, loc, ret, calls, evts, pub, dirty>>

\* ConfigurationStruct.UpdateFromRaw, lines 67-73.  The type assertion holds
\* for a nil *ConfigurationStruct too, and dereferencing it panics: the call
\* returns nothing.
UpdateFromRaw(rawConfig) ==
    LET ok == rawConfig.type = "*ConfigurationStruct" IN
    /\ IF ok /\ rawConfig.val = NilPointer THEN
           /\ configuration' = configuration
           /\ updated' = [op |-> "UpdateFromRaw", raw |-> rawConfig, returned |-> <<>>]
       ELSE
           /\ configuration' = IF ok THEN rawConfig.val ELSE configuration
           /\ updated' = [op |-> "UpdateFromRaw", raw |-> rawConfig, returned |-> <<ok>>]
    /\ UNCHANGED <<store, devices, watchers, pc, call, loc, ret, calls, evts, pub, dirty>>

\* ConfigurationStruct.UpdateWritableFromRaw, lines 88-94
UpdateWritableFromRaw(rawWritable) ==
    LET ok == rawWritable.type = "*WritableInfo" IN
    /\ IF ok /\ rawWritable.val = NilPointer THEN
           /\ configuration' = configuration
           /\ updated' = [op |-> "UpdateWritableFromRaw", raw |-> rawWritable,
                          returned |-> <<>>]
       ELSE
           /\ configuration' = IF ok
                                THEN [configuration EXCEPT !.Writable = rawWritable.val]
                                ELSE configuration
           /\ updated' = [op |-> "UpdateWritableFromRaw", raw |-> rawWritable,
                          returned |-> <<ok>>]
    /\ UNCHANGED <<store, devices, watchers, pc, call, loc, ret, calls, evts, pub, dirty>>

\* the configurations the registry hands over
GivenConfigurations ==
    {ConfigurationOf(w, origin) :
        w \in [LogLevel : {"INFO"}, ResendLimit : ResendLimits],
        origin \in SectionValues \ {"zero"}}

\* the values of type interface{} the two methods are called with: pointers
\* to either struct, nil pointers of either type, the structs themselves, the
\* nil interface and a value of another type
RawValues ==
    {Interface("*ConfigurationStruct", c) : c \in GivenConfigurations \cup {NilPointer}}
        \cup {Interface("*WritableInfo", w) : w \in WritableInfos \cup {NilPointer}}
        \cup {Interface("ConfigurationStruct", c) : c \in GivenConfigurations}
        \cup {Interface("WritableInfo", w) : w \in WritableInfos}
        \cup {Interface("nil", NilPointer), Interface("string", [s |-> "DEBUG"])}

NextConfig ==
    \/ \E rawConfig \in RawValues : UpdateFromRaw(rawConfig)
    \/ \E rawWritable \in RawValues : UpdateWritableFromRaw(rawWritable)

SpecConfig == Init /\ [][NextConfig]_vars

\* ------------------------------------------------------------- properties

Mutations ==
    {"AddDeviceProfile", "UpdateDeviceProfile", "PatchDeviceProfileBasicInfo",
     "DeleteDeviceProfileByName"}

\* the store calls that write profiles
WriteCalls == {"AddDeviceProfile", "UpdateDeviceProfile", "DeleteDeviceProfileByName"}

Done(p) == pc[p] = "done"
Succeeded(p) == Done(p) /\ ret[p].status = "ok"
Failed(p) == Done(p) /\ ret[p].status = "err"
FailedWith(p, kind) == Failed(p) /\ ret[p].err.kind = kind

\* the request issued no store call that writes profiles
IssuedNoWrite(p) == \A i \in 1..Len(calls[p]) : calls[p][i].op \notin WriteCalls

\* no store call of the request failed
NoStoreCallFailed(p) == \A i \in 1..Len(calls[p]) : calls[p][i].ok

HasInvalidUnit(d) ==
    \E i \in 1..Len(d.deviceResources) : d.deviceResources[i] \notin {"degC"}

\* C1: with UoM validation enabled, an add or update of a profile with a device
\* resource whose unit the validator rejects never gets past the validation:
\* it makes no store call, leaves the profiles as they are, schedules no event
\* and, once returned, has failed with an invalid-contract error.
C1_InvalidUnitRejected ==
    \A p \in Procs :
        (/\ call[p].op \in {"AddDeviceProfile", "UpdateDeviceProfile"}
         /\ call[p].dic.UoMValidation
         /\ HasInvalidUnit(call[p].d))
        => /\ pc[p] \in {call[p].op, "done"}
           /\ calls[p] = <<>>
           /\ ~dirty[p]
           /\ evts[p] = <<>>
           /\ Done(p) => FailedWith(p, "ContractInvalid")

\* C1's case: an update whose second resource carries the rejected unit has failed
C1_Witness ==
    /\ call["a"].op = "UpdateDeviceProfile"
    /\ call["a"].dic.UoMValidation
    /\ call["a"].d.deviceResources = <<"degC", "bogus">>
    /\ call["a"].d.name \in DOMAIN store
    /\ FailedWith("a", "ContractInvalid")

\* the tag of the event each mutation schedules
ActionTag(op) ==
    CASE op = "AddDeviceProfile" -> "add"
      [] op = "DeleteDeviceProfileByName" -> "delete"
      [] OTHER -> "update"

\* the name of the profile a successful mutation was about
AffectedName(p) ==
    CASE call[p].op \in {"AddDeviceProfile", "UpdateDeviceProfile"} -> call[p].d.name
      [] call[p].op = "DeleteDeviceProfileByName" -> call[p].name
      [] OTHER ->
            IF call[p].dto.id \notin {NilPtr, ""}
            THEN CHOOSE n \in Names : IdOf(n) = call[p].dto.id
            ELSE call[p].dto.name

\* C2: a mutation that returned success scheduled exactly one event, of the
\* profile type, with the action of the operation and the projection of the
\* affected profile as payload: the stored record for add, update and patch,
\* the record fetched before the deletion for delete.
C2_OneEventPerSuccess ==
    \A p \in Procs :
        (Succeeded(p) /\ call[p].op \in Mutations)
        => /\ Len(evts[p]) = 1
           /\ evts[p][1].type = "deviceprofile"
           /\ evts[p][1].source = "core-metadata"
           /\ evts[p][1].action = ActionTag(call[p].op)
           /\ evts[p][1].details.basicInfo.name = AffectedName(p)
           /\ evts[p][1].details.basicInfo.id = IdOf(AffectedName(p))
           /\ IF call[p].op = "DeleteDeviceProfileByName"
              THEN /\ AffectedName(p) \notin DOMAIN store
                   /\ evts[p][1].details = FromDeviceProfileModelToDTO(loc[p].profile)
              ELSE /\ AffectedName(p) \in DOMAIN store
                   /\ evts[p][1].details
                        = FromDeviceProfileModelToDTO(store[AffectedName(p)])
                   /\ evts[p][1].details.deviceResources
                        = store[AffectedName(p)].deviceResources
                   /\ evts[p][1].details.basicInfo.manufacturer
                        = store[AffectedName(p)].manufacturer

\* C2's case: a patch that changed the manufacturer has returned success
C2_Witness ==
    /\ Succeeded("a")
    /\ call["a"].op = "PatchDeviceProfileBasicInfo"
    /\ call["a"].dto.manufacturer = "bolt"
    /\ Len(evts["a"]) = 1
    /\ evts["a"][1].details.basicInfo.manufacturer = "bolt"

\* the name of a delete call is referenced by a device or a provision watcher
Referenced(p) == call[p].name \in devices \cup watchers

\* C3 as stated: a delete of a referenced name has failed with status-conflict
\* and the profile is still stored.
C3_AsStated ==
    \A p \in Procs :
        (Done(p) /\ call[p].op = "DeleteDeviceProfileByName" /\ Referenced(p))
        => FailedWith(p, "StatusConflict") /\ call[p].name \in DOMAIN store

\* C3, amended: a delete of a referenced name never issues the deletion, leaves
\* the profile stored and fails; the failure is service-locked when strict
\* deletes is enabled, the store's error when one of its lookups failed, and
\* status-conflict otherwise.
C3_ReferencedNeverDeleted ==
    \A p \in Procs :
        (call[p].op = "DeleteDeviceProfileByName" /\ Referenced(p))
        => /\ IssuedNoWrite(p)
           /\ ~dirty[p]
           /\ evts[p] = <<>>
           /\ call[p].name \in DOMAIN store
           /\ pc[p] \notin {"Delete_delete", "Delete_publish", "Delete_return"}
           /\ Done(p) =>
                /\ Failed(p)
                /\ call[p].dic.StrictDeviceProfileDeletes => FailedWith(p, "ServiceLocked")
                /\ (~call[p].dic.StrictDeviceProfileDeletes /\ NoStoreCallFailed(p))
                        => FailedWith(p, "StatusConflict")

\* C3's case: a delete of a profile only a provision watcher references has
\* failed with status-conflict
C3_Witness ==
    /\ call["a"].op = "DeleteDeviceProfileByName"
    /\ call["a"].name \in watchers \ devices
    /\ FailedWith("a", "StatusConflict")
    /\ ret["a"].err.stage = "watchers"

\* C4: with strict deletes enabled, a delete makes no store call, changes
\* nothing, schedules no event and fails service-locked, whatever the name.
C4_StrictDeletesLocked ==
    \A p \in Procs :
        (call[p].op = "DeleteDeviceProfileByName"
            /\ call[p].dic.StrictDeviceProfileDeletes)
        => /\ pc[p] \in {"DeleteDeviceProfileByName", "done"}
           /\ calls[p] = <<>>
           /\ ~dirty[p]
           /\ evts[p] = <<>>
           /\ Done(p) => FailedWith(p, "ServiceLocked")

\* C4's case: strict deletes has refused the empty name
C4_Witness ==
    /\ call["a"].op = "DeleteDeviceProfileByName"
    /\ call["a"].dic.StrictDeviceProfileDeletes
    /\ call["a"].name = ""
    /\ "p1" \in DOMAIN store /\ "p2" \notin DOMAIN store
    /\ FailedWith("a", "ServiceLocked")

Listings ==
    {"AllDeviceProfiles", "AllDeviceProfileBasicInfos", "DeviceProfilesByModel",
     "DeviceProfilesByManufacturer", "DeviceProfilesByManufacturerAndModel"}

\* the stored profiles a listing call asks for
Wanted(c) ==
    CASE c.op \in {"AllDeviceProfiles", "AllDeviceProfileBasicInfos"} ->
            {n \in DOMAIN store : \A l \in c.labels : l \in store[n].labels}
      [] c.op = "DeviceProfilesByModel" ->
            {n \in DOMAIN store : store[n].model = c.model}
      [] c.op = "DeviceProfilesByManufacturer" ->
            {n \in DOMAIN store : store[n].manufacturer = c.manufacturer}
      [] c.op = "DeviceProfilesByManufacturerAndModel" ->
            {n \in DOMAIN store :
                store[n].manufacturer = c.manufacturer /\ store[n].model = c.model}

\* a read call with an empty required key
EmptyKey(c) ==
    CASE c.op = "DeviceProfileByName" -> c.name = ""
      [] c.op = "DeviceProfilesByModel" -> c.model = ""
      [] c.op = "DeviceProfilesByManufacturer" -> c.manufacturer = ""
      [] c.op = "DeviceProfilesByManufacturerAndModel" ->
            c.manufacturer = "" \/ c.model = ""
      [] OTHER -> FALSE

\* the count call of a listing was made and succeeded
Counted(p) == Len(calls[p]) >= 1 /\ calls[p][1].ok

\* C5: a listing whose required filter fields are not empty and whose count
\* call succeeded returns, with or without an error and whatever the page, the
\* number of stored profiles that match its filter as totalCount.
C5_TotalCountIsMatchCount ==
    \A p \in Procs :
        (Done(p) /\ call[p].op \in Listings /\ ~EmptyKey(call[p]) /\ Counted(p))
        => ret[p].val.totalCount = Cardinality(Wanted(call[p]))

\* C5's case: two profiles match, the window holds none of them, and the
\* listing answered an empty page and a total of two
C5_Witness ==
    /\ Succeeded("a")
    /\ call["a"].op = "DeviceProfilesByManufacturerAndModel"
    /\ call["a"].limit = 0
    /\ ret["a"].val.page = <<>>
    /\ ret["a"].val.totalCount = 2

\* the record the selector of a patch payload resolves to, by id when the id
\* is set and by name otherwise
Resolved(dto) ==
    IF dto.id \notin {NilPtr, ""}
    THEN {n \in DOMAIN store : store[n].id = dto.id}
    ELSE {n \in DOMAIN store : n = dto.name}

\* C6: a patch whose payload carries a name that is not the name of the record
\* its selector resolved never gets to the replace: the profiles are as they
\* were, no event is scheduled and, once returned, the call has failed with an
\* invalid-contract error.
C6_NameMismatchRejected ==
    \A p \in Procs :
        (/\ call[p].op = "PatchDeviceProfileBasicInfo"
         /\ call[p].dto.name # NilPtr
         /\ Counted(p)
         /\ \E n \in Resolved(call[p].dto) : n # call[p].dto.name)
        => /\ Done(p)
           /\ FailedWith(p, "ContractInvalid")
           /\ IssuedNoWrite(p)
           /\ ~dirty[p]
           /\ evts[p] = <<>>

\* C6's case: the payload selects p1 by id, names p2, and both are stored
C6_Witness ==
    /\ call["a"].op = "PatchDeviceProfileBasicInfo"
    /\ call["a"].dto.id = "id1"
    /\ call["a"].dto.name = "p2"
    /\ call["a"].dto.manufacturer = "bolt"
    /\ {"p1", "p2"} \subseteq DOMAIN store
    /\ FailedWith("a", "ContractInvalid")

\* the handler's places after it has scheduled its event
ReturnPoints == {"Add_return", "Update_return", "Patch_return", "Delete_return"}

\* the handler of p returns success in this step
ReturnsSuccess(p) == Handlers(p) /\ pc'[p] = "done" /\ ret'[p].status = "ok"

\* C7: once a mutation has persisted and scheduled its event, it can return
\* success at once, whether the goroutine is still running, has published or
\* has failed; and what add has returned is the id of the stored profile in
\* each of the three cases.
C7_NeverWaitsForPublish ==
    \A p \in Procs :
        /\ pc[p] \in ReturnPoints => ENABLED ReturnsSuccess(p)
        /\ (Succeeded(p) /\ call[p].op = "AddDeviceProfile")
                => /\ pub[p] \in {"running", "delivered", "failed"}
                   /\ ret[p].val = IdOf(call[p].d.name)
                   /\ ret[p].val = store[call[p].d.name].id

\* C7's case: add has returned the id while the goroutine has not finished
C7_Witness ==
    /\ Succeeded("a")
    /\ call["a"].op = "AddDeviceProfile"
    /\ pub["a"] = "running"
    /\ ret["a"].val = "id2"

\* the error of a failed update came from fetching the profile again
RefetchFailed(p) ==
    /\ call[p].op = "UpdateDeviceProfile"
    /\ Len(calls[p]) >= 2
    /\ calls[p][Len(calls[p])].op = "DeviceProfileByName"
    /\ ~calls[p][Len(calls[p])].ok

\* C8: a mutation that failed at a validation or guard step, or at the store
\* write itself, changed no profile, had no write of its own succeed and
\* scheduled no event.
C8_NoPartialMutation ==
    \A p \in Procs :
        (Failed(p) /\ call[p].op \in Mutations /\ ~RefetchFailed(p))
        => /\ ~dirty[p]
           /\ \A i \in 1..Len(calls[p]) : calls[p][i].op \in WriteCalls => ~calls[p][i].ok
           /\ evts[p] = <<>>
           /\ pub[p] = "none"

\* C8's case: the store refused the insert of a name it already holds
C8_Witness ==
    /\ call["a"].op = "AddDeviceProfile"
    /\ FailedWith("a", "DuplicateName")
    /\ call["a"].d.deviceResources # store[call["a"].d.name].deviceResources

\* C9: an update whose replace succeeded and whose fetch of the profile then
\* failed returns that error, schedules no event, and the record it wrote is
\* still stored.
C9_RefetchFailureKeepsWrite ==
    \A p \in Procs :
        (Done(p) /\ RefetchFailed(p) /\ calls[p][Len(calls[p]) - 1].ok)
        => /\ Failed(p)
           /\ ret[p].err.stage = "fetchByName"
           /\ evts[p] = <<>>
           /\ pub[p] = "none"
           /\ call[p].d.name \in DOMAIN store
           /\ store[call[p].d.name].deviceResources = call[p].d.deviceResources
           /\ store[call[p].d.name].manufacturer = call[p].d.manufacturer

\* C9's case: the failed update did change the stored resources
C9_Witness ==
    /\ Done("a") /\ RefetchFailed("a")
    /\ calls["a"][Len(calls["a"]) - 1] = [op |-> "UpdateDeviceProfile", ok |-> TRUE]
    /\ dirty["a"]
    /\ Failed("a")

\* C10: a lookup or listing called with an empty required key makes no store
\* call and, once returned, has failed with an invalid-contract error.
C10_EmptyKeyRejected ==
    \A p \in Procs :
        (call[p].op \in Listings \cup {"DeviceProfileByName"} /\ EmptyKey(call[p]))
        => /\ pc[p] \in {call[p].op, "done"}
           /\ calls[p] = <<>>
           /\ Done(p) => FailedWith(p, "ContractInvalid")

\* C10's case: manufacturer and model given, the model empty
C10_Witness ==
    /\ call["a"].op = "DeviceProfilesByManufacturerAndModel"
    /\ call["a"].manufacturer = "acme"
    /\ call["a"].model = ""
    /\ store # <<>>
    /\ FailedWith("a", "ContractInvalid")

\* the request issued store call op
Issued(p, op) == \E i \in 1..Len(calls[p]) : calls[p][i].op = op

\* the window of a listing call cannot be served out of total matching
\* profiles: nothing is asked for, nothing matches, or the offset is beyond
\* the total
OutOfRange(c, total) ==
    c.offset >= 0 /\ (c.limit = 0 \/ total = 0 \/ c.offset > total)

\* C11: a listing whose count call succeeded and whose window is out of range
\* of the total returns at once, without an error, an empty page and the total
\* counted, having made the count call only; and a listing that made a second
\* store call, the page fetch, is one the range check let go on.
C11_OutOfRangeIsEmptyPage ==
    \A p \in Procs :
        (call[p].op \in Listings /\ ~EmptyKey(call[p]) /\ Counted(p))
        => /\ OutOfRange(call[p], Cardinality(Wanted(call[p])))
                => /\ Succeeded(p)
                   /\ ret[p].val.page = <<>>
                   /\ ret[p].val.totalCount = Cardinality(Wanted(call[p]))
                   /\ Len(calls[p]) = 1
           /\ Len(calls[p]) > 1
                => CheckCountRange(Cardinality(Wanted(call[p])),
                                   call[p].offset, call[p].limit).cont

\* C11's case: one profile is stored, the basic-info listing was asked for the
\* window from offset two and answered no rows and a total of one
C11_Witness ==
    /\ Succeeded("a")
    /\ call["a"].op = "AllDeviceProfileBasicInfos"
    /\ call["a"].offset = 2 /\ call["a"].limit = 1
    /\ Cardinality(DOMAIN store) = 1
    /\ ret["a"].val.page = <<>>
    /\ ret["a"].val.totalCount = 1
    /\ Len(calls["a"]) = 1

\* the resource count an update implies is above the configured ceiling
OverCapacity(p) ==
    /\ call[p].op = "UpdateDeviceProfile"
    /\ call[p].dic.MaxResources > 0
    /\ Len(call[p].d.deviceResources) > call[p].dic.MaxResources

\* C12 as stated: an update over the ceiling has failed with a conflict error
\* and issued no replace.
C12_AsStated ==
    \A p \in Procs :
        (Done(p) /\ OverCapacity(p))
        => FailedWith(p, "StatusConflict") /\ ~Issued(p, "UpdateDeviceProfile")

\* C12, amended: an update over a ceiling greater than 0 never issues the
\* replace, changes nothing, schedules no event and fails: with the conflict
\* error of the capacity checker when the unit validation let it through, with
\* the invalid-contract error of the unit validation otherwise.  With a ceiling
\* of 0 the capacity checker is not consulted and no failure is one of capacity.
C12_CapacityGate ==
    \A p \in Procs :
        /\ OverCapacity(p)
            => /\ ~Issued(p, "UpdateDeviceProfile")
               /\ ~dirty[p]
               /\ evts[p] = <<>>
               /\ pc[p] \in {"UpdateDeviceProfile", "Update_capacity", "done"}
               /\ Done(p) =>
                    IF deviceProfileUoMValidation(call[p].d, call[p].dic) = Nil
                    THEN /\ FailedWith(p, "StatusConflict")
                         /\ ret[p].err.stage = "capacity"
                         /\ calls[p] = <<[op |-> "checkResourceCapacityByUpdateProfile",
                                          ok |-> FALSE]>>
                    ELSE FailedWith(p, "ContractInvalid") /\ calls[p] = <<>>
        /\ (call[p].op = "UpdateDeviceProfile" /\ call[p].dic.MaxResources = 0)
            => /\ ~Issued(p, "checkResourceCapacityByUpdateProfile")
               /\ Failed(p) => ret[p].err.stage # "capacity"
               /\ (Failed(p) /\ deviceProfileUoMValidation(call[p].d, call[p].dic) = Nil)
                    => Issued(p, "UpdateDeviceProfile")

\* C12's case: two valid resources against a ceiling of one were refused
C12_Witness ==
    /\ OverCapacity("a")
    /\ call["a"].d.deviceResources = <<"degC", "degC">>
    /\ call["a"].d.name \in DOMAIN store
    /\ FailedWith("a", "StatusConflict")
    /\ ret["a"].err.stage = "capacity"

\* the store calls of a delete, in the order of the handler
DeleteOrder ==
    <<"DeviceProfileByName", "DevicesByProfileName",
      "ProvisionWatchersByProfileName", "DeleteDeviceProfileByName">>

\* the stage a failure of the i-th store call of a delete is reported with
DeleteStage == <<"fetchByName", "devices", "watchers", "delete">>

\* the request deleted the profile itself
Deleted(p) == Issued(p, "DeleteDeviceProfileByName") /\ calls[p][Len(calls[p])].ok

\* C14: a delete checks the strict-deletes flag, the name, the existence of the
\* profile, the devices and the provision watchers in this order.  Its store
\* calls are a prefix of lookup, devices, watchers, deletion, and none follows
\* one that failed; a gate that does not hold stops the handler there, so that
\* no store call of a later gate is made; and the error returned is that of
\* the gate the handler stopped at.
C14_GatesInOrder ==
    \A p \in Procs :
        call[p].op = "DeleteDeviceProfileByName"
        => LET n == Len(calls[p])
               strict == call[p].dic.StrictDeviceProfileDeletes
               name == call[p].name
           IN  /\ n <= 4
               /\ \A i \in 1..n : /\ calls[p][i].op = DeleteOrder[i]
                                  /\ i < n => calls[p][i].ok
               /\ strict => n = 0 /\ (Done(p) => FailedWith(p, "ServiceLocked"))
               /\ (~strict /\ name = "")
                    => /\ n = 0
                       /\ Done(p) => /\ FailedWith(p, "ContractInvalid")
                                     /\ ret[p].err.stage = "name"
               /\ (name \notin DOMAIN store /\ ~Deleted(p)) => n <= 1
               /\ name \in devices => n <= 2
               /\ name \in watchers => n <= 3
               /\ (Failed(p) /\ n > 0)
                    => /\ ret[p].err.stage = DeleteStage[n]
                       /\ ~calls[p][n].ok => ret[p].err.kind \in
                            {"DatabaseError", "EntityDoesNotExist"}
                       /\ (calls[p][n].ok /\ n = 2)
                            => name \in devices /\ ret[p].err.kind = "StatusConflict"
                       /\ (calls[p][n].ok /\ n = 3)
                            => /\ name \in watchers \ devices
                               /\ ret[p].err.kind = "StatusConflict"
                       /\ calls[p][n].ok => n \in {2, 3}
                       /\ (n = 1 /\ ret[p].err.kind = "EntityDoesNotExist")
                            => name \notin DOMAIN store
               /\ (Done(p) /\ ~strict /\ name # "") => n > 0
               /\ (Done(p) /\ ~strict /\ name \in DOMAIN store /\ NoStoreCallFailed(p))
                    => n >= 2 /\ (n = 2 <=> name \in devices)

\* C14's case: a device and a provision watcher reference the profile, and the
\* delete failed with the conflict of the devices without asking for the watchers
C14_Witness ==
    /\ call["a"].op = "DeleteDeviceProfileByName"
    /\ call["a"].name \in devices \cap watchers
    /\ FailedWith("a", "StatusConflict")
    /\ ret["a"].err.stage = "devices"
    /\ Len(calls["a"]) = 2

\* the store call that persists the mutation of each operation
WriteOf(op) ==
    CASE op = "AddDeviceProfile" -> "AddDeviceProfile"
      [] op = "DeleteDeviceProfileByName" -> "DeleteDeviceProfileByName"
      [] OTHER -> "UpdateDeviceProfile"

\* p schedules an event in this step
Schedules(p) == Len(evts'[p]) > Len(evts[p])

\* C15: whenever a request schedules an event, it is the only one of the call,
\* and the call's own insert, replace or deletion has been made before and has
\* succeeded.  For a delete, all five gates have passed before (the flag is
\* off, the name is not empty, lookup, devices and watchers succeeded and found
\* nothing in the way), and the payload is the projection of the profile the
\* lookup returned while it was still stored.
C15_EventAfterWrite ==
    [][\A p \in Procs :
        /\ Schedules(p)
            => /\ evts[p] = <<>>
               /\ Len(evts'[p]) = 1
               /\ evts'[p][1].action = ActionTag(call[p].op)
               /\ [op |-> WriteOf(call[p].op), ok |-> TRUE]
                    \in {calls[p][i] : i \in 1..Len(calls[p])}
               /\ dirty[p] \/ call[p].op # "DeleteDeviceProfileByName"
               /\ call[p].op = "DeleteDeviceProfileByName"
                    => /\ ~call[p].dic.StrictDeviceProfileDeletes
                       /\ call[p].name # ""
                       /\ calls[p] = [i \in 1..4 |-> [op |-> DeleteOrder[i], ok |-> TRUE]]
                       /\ call[p].name \notin DOMAIN store
                       /\ evts'[p][1].details = FromDeviceProfileModelToDTO(loc[p].profile)
        /\ (pc[p] = "Delete_fetch" /\ pc'[p] = "Delete_devices")
            => loc'[p].profile = store[call[p].name]
        /\ (pc[p] \in {"Delete_devices", "Delete_watchers", "Delete_delete",
                       "Delete_publish", "Delete_return"} /\ pc'[p] # "idle")
            => loc'[p] = loc[p]
      ]_vars

\* C15's case: the delete of a stored profile with two resources has scheduled
\* its event, which carries them
C15_Witness ==
    /\ pc["a"] = "Delete_return"
    /\ call["a"].name \notin DOMAIN store
    /\ Len(evts["a"]) = 1
    /\ evts["a"][1].action = "delete"
    /\ evts["a"][1].details.deviceResources = <<"degC", "bogus">>
    /\ Deleted("a")

\* C18 as stated: a patch that has ended has returned success or an error
\* value, whatever the id and the name of its payload; with the id absent or
\* empty and the name absent it has returned an error value and changed nothing.
C18_AsStated ==
    \A p \in Procs :
        (Done(p) /\ call[p].op = "PatchDeviceProfileBasicInfo")
        => /\ ret[p].status \in {"ok", "err"}
           /\ (call[p].dto.id \in {NilPtr, ""} /\ call[p].dto.name = NilPtr)
                => Failed(p) /\ ~dirty[p]

\* an Update...FromRaw call was made in this step
Updates == updated' # updated \/ configuration' # configuration

\* the sections besides Writable are what they were
SectionsUnchanged == \A s \in Sections : configuration'[s] = configuration[s]

\* C20 as stated: UpdateWritableFromRaw returns false and changes nothing when
\* given a value that is not a *WritableInfo, and otherwise returns true, sets
\* Writable and leaves the other sections alone; UpdateFromRaw returns false
\* and changes nothing when given a value that is not a *ConfigurationStruct,
\* and otherwise returns true and has made the configuration the given one.
C20_AsStated ==
    [][Updates =>
        LET raw == updated'.raw IN
        IF updated'.op = "UpdateWritableFromRaw" THEN
            IF raw.type # "*WritableInfo"
            THEN updated'.returned = <<FALSE>> /\ configuration' = configuration
            ELSE /\ updated'.returned = <<TRUE>>
                 /\ configuration'.Writable = raw.val
                 /\ SectionsUnchanged
        ELSE
            IF raw.type # "*ConfigurationStruct"
            THEN updated'.returned = <<FALSE>> /\ configuration' = configuration
            ELSE updated'.returned = <<TRUE>> /\ configuration' = raw.val
      ]_vars

\* C20, amended: as stated for every value that is not of the pointer type and
\* for every pointer that is not nil; given a nil pointer of the type it
\* asserts, either method panics when it dereferences it: it returns nothing
\* and the configuration is unchanged.
C20_OverwriteAllOrNothing ==
    [][Updates =>
        LET raw == updated'.raw IN
        /\ updated'.op \in {"UpdateWritableFromRaw", "UpdateFromRaw"}
        /\ IF updated'.op = "UpdateWritableFromRaw" THEN
               IF raw.type # "*WritableInfo"
               THEN updated'.returned = <<FALSE>> /\ configuration' = configuration
               ELSE IF raw.val = NilPointer
               THEN updated'.returned = <<>> /\ configuration' = configuration
               ELSE /\ updated'.returned = <<TRUE>>
                    /\ configuration'.Writable = raw.val
                    /\ SectionsUnchanged
           ELSE
               IF raw.type # "*ConfigurationStruct"
               THEN updated'.returned = <<FALSE>> /\ configuration' = configuration
               ELSE IF raw.val = NilPointer
               THEN updated'.returned = <<>> /\ configuration' = configuration
               ELSE /\ updated'.returned = <<TRUE>>
                    /\ configuration' = raw.val
                    /\ \A s \in Sections : configuration'[s] = raw.val[s]
      ]_vars

\* C20's case: the configuration came from a file, and UpdateWritableFromRaw
\* has then replaced its writable section by one no file gave, and that only
C20_Witness ==
    /\ updated.op = "UpdateWritableFromRaw"
    /\ updated.returned = <<TRUE>>
    /\ updated.raw.val = [LogLevel |-> "DEBUG", ResendLimit |-> 2]
    /\ configuration = ConfigurationOf([LogLevel |-> "DEBUG", ResendLimit |-> 2], "fileB")

\* the record stored under name n, Nil when there is none
Entry(st, n) == IF n \in DOMAIN st THEN st[n] ELSE Nil

\* p is inside a mutation handler
InMutation(p) == call[p].op \in Mutations /\ pc[p] \notin {"idle", "done"}

\* q takes a step of its handler
Steps(q) == call[q].op \in Mutations /\ pc'[q] # pc[q] /\ pc[q] # "done"

\* everything p can see of its own call and of the profile named n is as it was
SameView(p, n) ==
    /\ Entry(store', n) = Entry(store, n)
    /\ (n \in devices') = (n \in devices)
    /\ (n \in watchers') = (n \in watchers)
    /\ pc'[p] = pc[p] /\ call'[p] = call[p] /\ loc'[p] = loc[p]
    /\ ret'[p] = ret[p] /\ calls'[p] = calls[p] /\ evts'[p] = evts[p]
    /\ dirty'[p] = dirty[p]

\* what a mutation that runs alone on its profile ends with: on success one
\* event with the projection of the stored record (of the record fetched, for
\* a delete, which is gone) and, for add, the stored id; on a failure before
\* or at the write no change and no event; and the errors of the store say
\* what is stored
SoloOutcome(p) ==
    LET n == AffectedName(p) IN
    /\ Succeeded(p)
        => /\ Len(evts[p]) = 1
           /\ evts[p][1].action = ActionTag(call[p].op)
           /\ IF call[p].op = "DeleteDeviceProfileByName"
              THEN /\ n \notin DOMAIN store
                   /\ evts[p][1].details = FromDeviceProfileModelToDTO(loc[p].profile)
                   /\ loc[p].profile.name = n
              ELSE /\ n \in DOMAIN store
                   /\ evts[p][1].details = FromDeviceProfileModelToDTO(store[n])
           /\ call[p].op = "AddDeviceProfile"
                => ret[p].val = store[n].id /\ store[n].deviceResources = call[p].d.deviceResources
           /\ call[p].op = "UpdateDeviceProfile"
                => store[n] = [call[p].d EXCEPT !.id = IdOf(n)]
           /\ call[p].op = "PatchDeviceProfileBasicInfo"
                => store[n].manufacturer = call[p].dto.manufacturer
    /\ (Failed(p) /\ ~RefetchFailed(p)) => ~dirty[p] /\ evts[p] = <<>>
    /\ FailedWith(p, "DuplicateName") => n \in DOMAIN store
    /\ FailedWith(p, "EntityDoesNotExist") => n \notin DOMAIN store

\* C13: two mutation calls on different profile names do not meet.  A step of
\* one changes no profile but its own and nothing the other call sees: its
\* place, its locals, its result, its store calls, its events, the record of
\* its name and the references to it; no step waits for the other request; and
\* each call ends as it does when it runs alone, whatever the interleaving.
C13_DifferentNamesIndependent ==
    [][\A p \in Procs : \A q \in Procs \ {p} :
        /\ Steps(q)
            => /\ \A n \in Names \ {AffectedName(q)} :
                    Entry(store', n) = Entry(store, n)
               /\ devices' = devices /\ watchers' = watchers
               /\ (call[p].op \in Mutations /\ AffectedName(p) # AffectedName(q))
                    => SameView(p, AffectedName(p))
        /\ InMutation(p) => ENABLED Handlers(p)
        /\ call'[p].op \in Mutations => SoloOutcome(p)'
      ]_vars

\* C13's case: an update of p1 and a delete of p2 are under way at once, both
\* have written and scheduled their events
C13_Witness ==
    /\ pc["a"] = "Update_return" /\ pc["b"] = "Delete_return"
    /\ AffectedName("a") = "p1" /\ AffectedName("b") = "p2"
    /\ "p1" \in DOMAIN store /\ "p2" \notin DOMAIN store
    /\ evts["a"][1].details.basicInfo.name = "p1"
    /\ evts["b"][1].details.basicInfo.name = "p2"

\* C16 as stated: when an update schedules its event, the payload is the
\* projection of the record stored under the name at that moment.
C16_AsStated ==
    [][\A p \in Procs :
        (pc[p] = "Update_publish" /\ pc'[p] = "Update_return")
        => /\ call[p].d.name \in DOMAIN store'
           /\ evts'[p][Len(evts'[p])].details
                = FromDeviceProfileModelToDTO(store'[call[p].d.name])
      ]_vars

\* C16, amended: the payload of an update's event is the projection of the
\* record its fetch returned, which is the record that was stored under the
\* name at the moment of the fetch; no step of another request changes that
\* copy.  It is the record stored when the event is scheduled whenever the
\* stored record has not changed since the fetch.
C16_PayloadIsFetchedRecord ==
    [][\A p \in Procs :
        LET n == call[p].d.name IN
        /\ (pc[p] = "Update_fetch" /\ pc'[p] = "Update_publish")
            => /\ n \in DOMAIN store
               /\ loc'[p].profile = store[n]
               /\ store' = store
        /\ (pc[p] = "Update_publish" /\ pc'[p] = "Update_publish")
            => loc'[p] = loc[p]
        /\ (pc[p] = "Update_publish" /\ pc'[p] = "Update_return")
            => /\ evts'[p] = <<SystemEvent("update",
                                  FromDeviceProfileModelToDTO(loc[p].profile))>>
               /\ store' = store
               /\ Entry(store, n) = loc[p].profile
                    => evts'[p][1].details = FromDeviceProfileModelToDTO(store'[n])
      ]_vars

\* C16's case: an update has scheduled its event while a patch of the same
\* profile has replaced the record, and the event does not carry what is stored
C16_Witness ==
    /\ pc["a"] = "Update_return"
    /\ call["b"].op = "PatchDeviceProfileBasicInfo"
    /\ pc["b"] = "Patch_publish"
    /\ "p1" \in DOMAIN store
    /\ store["p1"].manufacturer = "bolt"
    /\ evts["a"][1].details.basicInfo.manufacturer = "acme"

\* p's patch replaces the record in this step
PatchReplaces(p) == pc[p] = "Patch_replace" /\ pc'[p] = "Patch_publish"

\* the fields of record to that the payload of p's patch does not carry are
\* those of record from
AbsentFieldsKept(p, from, to) ==
    /\ to.deviceResources = from.deviceResources
    /\ to.labels = from.labels
    /\ to.name = from.name
    /\ to.id = from.id
    /\ call[p].dto.manufacturer = NilPtr => to.manufacturer = from.manufacturer
    /\ call[p].dto.model = NilPtr => to.model = from.model

\* C17 as stated: the replace of a patch leaves every field the payload does
\* not carry, the device resources among them, as it was stored immediately
\* before.
C17_AsStated ==
    [][\A p \in Procs :
        PatchReplaces(p)
        => LET n == loc[p].deviceProfile.name IN
           /\ n \in DOMAIN store
           /\ AbsentFieldsKept(p, store[n], store'[n])
      ]_vars

\* C17, amended: the replace of a patch writes the record the patch fetched
\* with the fields of the payload put in: every field the payload does not
\* carry is as it was in the fetched record, which was the stored one at the
\* moment of the fetch.  It is as it was stored immediately before the replace
\* whenever the stored record has not changed since the fetch.
C17_PatchWritesFetchedRecord ==
    [][\A p \in Procs :
        /\ (pc[p] = "PatchDeviceProfileBasicInfo" /\ pc'[p] = "Patch_replace")
            => /\ call[p].dto.name \in DOMAIN store
               /\ loc'[p].deviceProfile = store[call[p].dto.name]
        /\ (pc[p] = "Patch_replace" /\ pc'[p] = "Patch_replace")
            => loc'[p] = loc[p]
        /\ PatchReplaces(p)
            => LET n == loc[p].deviceProfile.name IN
               /\ n \in DOMAIN store /\ n \in DOMAIN store'
               /\ AbsentFieldsKept(p, loc[p].deviceProfile, store'[n])
               /\ call[p].dto.manufacturer # NilPtr
                    => store'[n].manufacturer = call[p].dto.manufacturer
               /\ store[n] = loc[p].deviceProfile
                    => AbsentFieldsKept(p, store[n], store'[n])
      ]_vars

\* C17's case: an update stored a resource after the patch had fetched the
\* profile, and the replace of the patch has put the fetched resources back
C17_Witness ==
    /\ pc["a"] = "Patch_publish"
    /\ call["b"].op = "UpdateDeviceProfile"
    /\ call["b"].d.deviceResources = <<"degC">>
    /\ pc["b"] = "Update_fetch"
    /\ "p1" \in DOMAIN store
    /\ store["p1"].deviceResources = <<>>
    /\ store["p1"].manufacturer = "bolt"

\* C19 as stated: every profile a stored device or provision watcher
\* references is stored.
C19_AsStated == \A n \in devices \cup watchers : n \in DOMAIN store

\* C19, amended: a delete gets past its device lookup only at a moment when no
\* device references the profile, and past its provision-watcher lookup only
\* at a moment when no provision watcher does; storing a device or a watcher
\* never leaves a reference without its profile; and the one step that does is
\* the deletion of a delete whose lookups were made before the reference was
\* stored.
C19_GuardHoldsAtLookup ==
    [][/\ \A p \in Procs :
            /\ (pc[p] = "Delete_devices" /\ pc'[p] = "Delete_watchers")
                => call[p].name \notin devices
            /\ (pc[p] = "Delete_watchers" /\ pc'[p] = "Delete_delete")
                => call[p].name \notin watchers
       /\ (C19_AsStated /\ ~C19_AsStated')
            => /\ devices' = devices /\ watchers' = watchers
               /\ \E p \in Procs :
                    /\ pc[p] = "Delete_delete" /\ pc'[p] = "Delete_publish"
                    /\ call[p].name \in devices \cup watchers
                    /\ call[p].name \in DOMAIN store
                    /\ call[p].name \notin DOMAIN store'
      ]_vars

\* C19's case: a device was stored after the delete had looked for devices,
\* and the delete has removed the profile the device references
C19_Witness ==
    /\ call["a"].op = "DeleteDeviceProfileByName"
    /\ pc["a"] = "Delete_publish"
    /\ "p1" \in devices
    /\ "p1" \notin DOMAIN store
    /\ calls["a"][2] = [op |-> "DevicesByProfileName", ok |-> TRUE]

====
